---------------------------- MODULE Spec2Model ----------------------------
(***************************************************************************)
(* PDF Partner Generator: the form of src/app/page.tsx (its state, its     *)
(* handlers and their asynchronous continuations) and the library          *)
(* functions of src/lib/pdf-processor.ts it calls (extractDateFromPdf,     *)
(* processPDF, scaleToFit, validatePDF, validateImage).                    *)
(*                                                                         *)
(* Text is a sequence of one-character strings, so that trimming and the   *)
(* regular expression of the date are computed and not assumed.            *)
(***************************************************************************)
EXTENDS Integers, Sequences, FiniteSets, TLC

VARIABLES
    pdfFile,        \* useState<File | null>: 0 is null, else the id of a file
    pdfBuffer,      \* useState<ArrayBuffer | null>: 0 is null, else the id of the file read
    extractedDate,  \* useState<string>
    partnerName,    \* useState<string>
    logoFile,       \* useState<File | null>: 0 is null, else the id of a logo file
    logoPreview,    \* useState<string | null>: FALSE is null, TRUE an object URL
    status,         \* useState<Status>
    errorMessage,   \* useState<string>
    up,             \* the calls of processPdfFile, by number
    conv,           \* the calls of handleProcess and processPDF, by number
    downloads,      \* the calls among conv that have called downloadPDF
    fn              \* the pure function under study: its input and its output

vars == <<pdfFile, pdfBuffer, extractedDate, partnerName, logoFile, logoPreview,
          status, errorMessage, up, conv, downloads, fn>>

uiVars == <<pdfFile, pdfBuffer, extractedDate, partnerName, logoFile, logoPreview,
            status, errorMessage>>

---------------------------------------------------------------------------
(* Bounds of the model.                                                    *)

\* calls of processPdfFile awaiting at the same time
MaxUploads == 1
\* calls of handleProcess awaiting at the same time
MaxConversions == 1
\* text runs on page 2 of a document given to extractDateFromPdf
MaxRuns == 2
\* pages of a document given to extractDateFromPdf
MaxPages == 3
\* bits of the significand of a number (53 in a JavaScript number)
MantBits == 8
\* width and height in pixels of an image given to scaleToFit
MaxDim == 16
\* characters of a partner name given to processPDF for its file name
MaxNameLen == 3

---------------------------------------------------------------------------
(* Text.                                                                   *)

Digits == {"0", "1", "2", "3", "4", "5", "6", "7", "8", "9"}

\* \s of a JavaScript regular expression and of String.prototype.trim,
\* over the characters the model uses
Whitespace == {" ", "\t"}

RECURSIVE TrimStart(_)
TrimStart(s) ==
    IF s # <<>> /\ Head(s) \in Whitespace THEN TrimStart(Tail(s)) ELSE s

RECURSIVE TrimEnd(_)
TrimEnd(s) ==
    IF s # <<>> /\ s[Len(s)] \in Whitespace
    THEN TrimEnd(SubSeq(s, 1, Len(s) - 1))
    ELSE s

\* String.prototype.trim
Trim(s) == TrimEnd(TrimStart(s))

RECURSIVE Concat(_)
Concat(ss) == IF ss = <<>> THEN <<>> ELSE Head(ss) \o Concat(Tail(ss))

\* the regular expression /(\d{2}\.\d{2}\.\d{4})/ matches s at position i
DateLen == 10
DateAt(s, i) ==
    /\ i >= 1
    /\ i + DateLen - 1 <= Len(s)
    /\ s[i] \in Digits /\ s[i + 1] \in Digits
    /\ s[i + 2] = "."
    /\ s[i + 3] \in Digits /\ s[i + 4] \in Digits
    /\ s[i + 5] = "."
    /\ s[i + 6] \in Digits /\ s[i + 7] \in Digits
    /\ s[i + 8] \in Digits /\ s[i + 9] \in Digits

\* text.match(/(\d{2}\.\d{2}\.\d{4})/): null (here <<>>, no match is ever
\* empty) or the leftmost match, match[1]
DateMatch(s) ==
    IF \E i \in 1..Len(s) : DateAt(s, i)
    THEN LET i == CHOOSE k \in 1..Len(s) :
                      DateAt(s, k) /\ \A j \in 1..(k - 1) : ~DateAt(s, j)
         IN  SubSeq(s, i, i + DateLen - 1)
    ELSE <<>>

---------------------------------------------------------------------------
(* extractDateFromPdf.                                                     *)

\* what a call leaves: a value returned, or an exception thrown (a promise
\* rejected)
Return(v) == [threw |-> FALSE, value |-> v]
Throw == [threw |-> TRUE, value |-> <<>>]

\* for (const item of textContent.items) { const match = item.str.match(..);
\* if (match) return match[1]; } ... return ''
RECURSIVE FirstRunDate(_)
FirstRunDate(runs) ==
    IF runs = <<>> THEN <<>>
    ELSE IF DateMatch(Head(runs)) # <<>> THEN DateMatch(Head(runs))
    ELSE FirstRunDate(Tail(runs))

\* the body of the try block of the pdf.js revision. A document is
\* [loads: getDocument resolves, numPages, textOk: getPage(2) and
\* getTextContent resolve, runs: the str of the items of page 2]
ExtractTry(doc) ==
    IF ~doc.loads THEN Throw
    ELSE IF doc.numPages < 2 THEN Return(<<>>)
    ELSE IF ~doc.textOk THEN Throw
    ELSE Return(FirstRunDate(doc.runs))

extractDateFromPdf_NoCatch(doc) == ExtractTry(doc)

\* try { ... } catch (error) { return ''; }
extractDateFromPdf(doc) ==
    LET r == ExtractTry(doc) IN IF r.threw THEN Return(<<>>) ELSE r

\* new TextDecoder('latin1').decode(bytes): one character per byte, the
\* ASCII bytes to their characters; a byte outside ASCII is no digit and no dot
DigitOfByte(b) ==
    CASE b = 48 -> "0" [] b = 49 -> "1" [] b = 50 -> "2" [] b = 51 -> "3"
      [] b = 52 -> "4" [] b = 53 -> "5" [] b = 54 -> "6" [] b = 55 -> "7"
      [] b = 56 -> "8" [] b = 57 -> "9"
CharOfByte(b) ==
    IF b >= 48 /\ b <= 57 THEN DigitOfByte(b)
    ELSE IF b = 46 THEN "."
    ELSE IF b = 32 THEN " "
    ELSE IF b = 44 THEN ","
    ELSE "x"

DecodeLatin1(bytes) == [i \in 1..Len(bytes) |-> CharOfByte(bytes[i])]

\* the raw-byte revision: the first match in the whole decoded file
extractDateFromPdfRaw(bytes) == Return(DateMatch(DecodeLatin1(bytes)))

\* the text of the inputs
TextAcme == <<"A", "c", "m", "e", " ", "A", "G", ",", " ">>
TextDate == <<"0", "5", ".", "0", "3", ".", "2", "0", "2", "4">>
TextAcmeHalf == <<"A", "c", "m", "e", " ", "A", "G", ",", " ", "0", "5", ".", "0", "3", ".">>
TextYear == <<"2", "0", "2", "4">>
TextFooter == <<"A", "c", "m", "e", " ", "A", "G", ",", " ", "0", "5", ".", "0", "3", ".", "2", "0", "2", "4">>
TextOtherDate == <<"1", "1", ".", "1", "2", ".", "2", "0", "2", "5">>
TextShortDate == <<"5", ".", "3", ".", "2", "0", "2", "4">>
TextEmbedded == <<"1", "0", "5", ".", "0", "3", ".", "2", "0", "2", "4", "5">>

Fragments == {TextAcme, TextDate, TextAcmeHalf, TextYear, TextFooter, TextOtherDate, TextShortDate, TextEmbedded, <<>>}

RunLists == UNION {[1..n -> Fragments] : n \in 0..MaxRuns}

ExtractInputs ==
    [loads : BOOLEAN, numPages : 0..MaxPages, textOk : BOOLEAN, runs : RunLists]

\* the bytes of a text: the ASCII code of each character (the letters as one
\* byte outside the digits, the dot, the blank and the comma)
ByteOfChar(c) ==
    CASE c = "0" -> 48 [] c = "1" -> 49 [] c = "2" -> 50 [] c = "3" -> 51
      [] c = "4" -> 52 [] c = "5" -> 53 [] c = "6" -> 54 [] c = "7" -> 55
      [] c = "8" -> 56 [] c = "9" -> 57 [] c = "." -> 46 [] c = " " -> 32
      [] c = "," -> 44 [] OTHER -> 233

EncodeLatin1(s) == [i \in 1..Len(s) |-> ByteOfChar(s[i])]

RawInputs == {EncodeLatin1(Concat(rs)) : rs \in RunLists}

---------------------------------------------------------------------------
(* Numbers: binary floating point with a significand of MantBits bits,     *)
(* rounded to nearest, ties to even, as the JavaScript number is with 53   *)
(* bits. A number is [m, e], of value m * 2^e, with                        *)
(* 2^(MantBits-1) <= m < 2^MantBits; exponents are not bounded (no         *)
(* overflow, no subnormals in the range of the sizes).                     *)

RECURSIVE Pow2(_)
Pow2(n) == IF n <= 0 THEN 1 ELSE 2 * Pow2(n - 1)

\* the number of bits of n > 0
RECURSIVE BitLen(_)
BitLen(n) == IF n <= 1 THEN 1 ELSE 1 + BitLen(n \div 2)

\* the number nearest to n * 2^e, for an integer n > 0
RoundToFloat(n, e) ==
    IF BitLen(n) <= MantBits
    THEN [m |-> n * Pow2(MantBits - BitLen(n)), e |-> e - (MantBits - BitLen(n))]
    ELSE LET k == BitLen(n) - MantBits
             q == n \div Pow2(k)
             r == n % Pow2(k)
             half == Pow2(k - 1)
             roundUp == r > half \/ (r = half /\ q % 2 = 1)
             q1 == IF roundUp THEN q + 1 ELSE q
         IN  IF q1 = Pow2(MantBits)
             THEN [m |-> Pow2(MantBits - 1), e |-> e + k + 1]
             ELSE [m |-> q1, e |-> e + k]

FromInt(n) == RoundToFloat(n, 0)

\* a * b
FMul(a, b) == RoundToFloat(a.m * b.m, a.e + b.e)

\* a / b: the quotient to MantBits + 2 bits and more, and one more bit for
\* a remainder, so that the rounding is that of the exact quotient
FDiv(a, b) ==
    LET n == (a.m * Pow2(MantBits + 2)) \div b.m
        sticky == IF (a.m * Pow2(MantBits + 2)) % b.m = 0 THEN 0 ELSE 1
    IN  RoundToFloat(2 * n + sticky, a.e - b.e - (MantBits + 2) - 1)

\* a < b
FLess(a, b) == a.e < b.e \/ (a.e = b.e /\ a.m < b.m)

\* Math.min(a, b)
FMin(a, b) == IF FLess(b, a) THEN b ELSE a

FMax(a, b) == IF FLess(a, b) THEN b ELSE a

scaleToFit_Max(originalWidth, originalHeight, maxWidth, maxHeight) ==
    LET scale == FMax(FDiv(maxWidth, originalWidth), FDiv(maxHeight, originalHeight))
    IN  [width |-> FMul(originalWidth, scale), height |-> FMul(originalHeight, scale)]

\* scaleToFit(originalWidth, originalHeight, maxWidth, maxHeight)
scaleToFit(originalWidth, originalHeight, maxWidth, maxHeight) ==
    LET widthRatio == FDiv(maxWidth, originalWidth)
        heightRatio == FDiv(maxHeight, originalHeight)
        scale == FMin(widthRatio, heightRatio)
    IN  [width |-> FMul(originalWidth, scale), height |-> FMul(originalHeight, scale)]

---------------------------------------------------------------------------
(* The files the user can choose, and the validation by type and name.     *)

ToLowerCaseChar(c) ==
    CASE c = "A" -> "a" [] c = "B" -> "b" [] c = "D" -> "d" [] c = "F" -> "f"
      [] c = "P" -> "p" [] c = "T" -> "t" [] c = "X" -> "x" [] OTHER -> c

\* String.prototype.toLowerCase
ToLowerCase(s) == [i \in 1..Len(s) |-> ToLowerCaseChar(s[i])]

\* String.prototype.endsWith
EndsWith(s, suffix) ==
    /\ Len(suffix) <= Len(s)
    /\ SubSeq(s, Len(s) - Len(suffix) + 1, Len(s)) = suffix

\* file.type === 'application/pdf' || file.name.toLowerCase().endsWith('.pdf')
validatePDF(file) ==
    \/ file.type = "application/pdf"
    \/ EndsWith(ToLowerCase(file.name), <<".", "p", "d", "f">>)

\* ['image/png', 'image/jpeg', 'image/jpg'].includes(file.type)
validateImage(file) == file.type \in {"image/png", "image/jpeg", "image/jpg"}

\* A file of the PDF drop zone: its type and name, whether pdf-lib parses its
\* bytes (PDFDocument.load resolves), and what pdf.js finds in it
\* (see ExtractTry). The page count is the document's, for both libraries.
PdfFiles ==
    <<  \* a report of two pages, dated on page 2
        [type |-> "application/pdf", name |-> <<"a", ".", "p", "d", "f">>, parses |-> TRUE,
         doc |-> [loads |-> TRUE, numPages |-> 2, textOk |-> TRUE,
                  runs |-> <<TextAcme, TextDate>>]],
        \* a report of two pages with another date, recognised by its name
        [type |-> "", name |-> <<"B", ".", "P", "D", "F">>, parses |-> TRUE,
         doc |-> [loads |-> TRUE, numPages |-> 2, textOk |-> TRUE,
                  runs |-> <<TextOtherDate>>]],
        \* a file named as a PDF whose bytes no library can load
        [type |-> "application/pdf", name |-> <<"x", ".", "p", "d", "f">>, parses |-> FALSE,
         doc |-> [loads |-> FALSE, numPages |-> 0, textOk |-> FALSE, runs |-> <<>>]],
        \* a text file
        [type |-> "text/plain", name |-> <<"a", ".", "t", "x", "t">>, parses |-> FALSE,
         doc |-> [loads |-> FALSE, numPages |-> 0, textOk |-> FALSE, runs |-> <<>>]],
        \* a document of one page
        [type |-> "application/pdf", name |-> <<"a", ".", "p", "d", "f">>, parses |-> TRUE,
         doc |-> [loads |-> TRUE, numPages |-> 1, textOk |-> TRUE, runs |-> <<>>]],
        \* a document without pages
        [type |-> "application/pdf", name |-> <<"a", ".", "p", "d", "f">>, parses |-> TRUE,
         doc |-> [loads |-> TRUE, numPages |-> 0, textOk |-> FALSE, runs |-> <<>>]],
        \* a report of three pages
        [type |-> "application/pdf", name |-> <<"a", ".", "p", "d", "f">>, parses |-> TRUE,
         doc |-> [loads |-> TRUE, numPages |-> 3, textOk |-> TRUE,
                  runs |-> <<TextFooter>>]]
    >>

\* the files offered to the PDF drop zone of the form
DropPdfs == {1, 2, 4}
\* the documents given to processPDF when it is studied by itself
AllPdfs == 1..Len(PdfFiles)

\* A file of the logo drop zone: its type, and the image format its bytes
\* really hold ("none": not an image)
LogoFiles ==
    <<  [type |-> "image/png", format |-> "png"],
        [type |-> "image/jpeg", format |-> "none"],
        [type |-> "image/gif", format |-> "gif"],
        [type |-> "image/jpg", format |-> "jpeg"],
        [type |-> "", format |-> "png"]
    >>

\* the files offered to the logo drop zone of the form
DropLogos == {1, 3}
AllLogos == 1..Len(LogoFiles)

\* the values typed into the partner name field
NameEmpty == <<>>
NameBlank == <<" ">>
NameMB == <<" ", "M", "B">>
Names == {NameEmpty, NameBlank, NameMB}

\* the messages of the form and of processPDF (umlauts transliterated)
MsgInvalidPdf == "Bitte laden Sie eine gueltige PDF-Datei hoch."
MsgReadError == "Fehler beim Lesen der PDF-Datei."
MsgInvalidImage == "Bitte laden Sie ein gueltiges PNG- oder JPG-Bild hoch."
MsgUnexpected == "Ein unerwarteter Fehler ist aufgetreten."
MsgNoPages == "Das PDF enthaelt keine Seiten."
MsgLogo == "Das Logo konnte nicht verarbeitet werden. Bitte verwenden Sie ein gueltiges PNG- oder JPG-Bild."
MsgUnsupported(mime) == "Nicht unterstuetztes Bildformat: " \o mime

\* an Error object thrown by a library (pdf-lib, pdf.js, FileReader)
LibError(what) == [isError |-> TRUE, message |-> "library error"]
\* new Error(message)
NewError(message) == [isError |-> TRUE, message |-> message]

\* error instanceof Error ? error.message : 'Ein unerwarteter Fehler ...'
ErrorText(error) == IF error.isError THEN error.message ELSE MsgUnexpected

---------------------------------------------------------------------------
(* processPDF: the file name of the result. A letter outside ASCII is      *)
(* written as the name of its HTML entity ("auml" is a-umlaut).            *)

AsciiLetters ==
    {"a", "b", "c", "d", "e", "f", "g", "h", "i", "j", "k", "l", "m",
     "n", "o", "p", "q", "r", "s", "t", "u", "v", "w", "x", "y", "z",
     "A", "B", "C", "D", "E", "F", "G", "H", "I", "J", "K", "L", "M",
     "N", "O", "P", "Q", "R", "S", "T", "U", "V", "W", "X", "Y", "Z"}

\* the letters outside ASCII in the character class of the first replace
GermanLetters == {"auml", "ouml", "uuml", "Auml", "Ouml", "Uuml", "szlig"}

\* the characters [a-zA-Z0-9...\s-] of the first replace, which deletes
\* every other character
KeptChars == AsciiLetters \cup Digits \cup GermanLetters \cup Whitespace \cup {"-"}

\* .replace(/[^a-zA-Z0-9...\s-]/g, '')
StripChars(s) == SelectSeq(s, LAMBDA ch : ch \in KeptChars)

\* .replace(/\s+/g, '_'): each leftmost longest run of whitespace becomes
\* one underscore
RECURSIVE CollapseWhitespace(_)
CollapseWhitespace(s) ==
    IF s = <<>> THEN <<>>
    ELSE IF Head(s) \in Whitespace THEN <<"_">> \o CollapseWhitespace(TrimStart(s))
    ELSE <<Head(s)>> \o CollapseWhitespace(Tail(s))

\* const sanitizedName = partnerName.replace(...).replace(...)
sanitizedName(name) == CollapseWhitespace(StripChars(name))

DigitChar(n) ==
    CASE n = 0 -> "0" [] n = 1 -> "1" [] n = 2 -> "2" [] n = 3 -> "3" [] n = 4 -> "4"
      [] n = 5 -> "5" [] n = 6 -> "6" [] n = 7 -> "7" [] n = 8 -> "8" [] n = 9 -> "9"

\* the decimal digits of n, padded with zeros to a width
RECURSIVE PadStart(_, _)
PadStart(n, width) ==
    IF width = 0 THEN <<>> ELSE PadStart(n \div 10, width - 1) \o <<DigitChar(n % 10)>>

\* Date.prototype.toISOString, for a year from 0 to 9999: the date and the
\* time of day in UTC, as YYYY-MM-DDTHH:mm:ss.sssZ
toISOString(date) ==
    PadStart(date.year, 4) \o <<"-">> \o PadStart(date.month, 2) \o <<"-">>
    \o PadStart(date.day, 2) \o <<"T">> \o PadStart(date.hours, 2) \o <<":">>
    \o PadStart(date.minutes, 2) \o <<":", "0", "0", ".", "0", "0", "0", "Z">>

\* s.split('T')[0]: s up to its first T, all of s without one
RECURSIVE SplitT0(_)
SplitT0(s) ==
    IF s = <<>> \/ Head(s) = "T" THEN <<>> ELSE <<Head(s)>> \o SplitT0(Tail(s))

FilenamePrefix ==
    <<"B", "e", "w", "e", "i", "s", "s", "i", "c", "h", "e", "r", "u", "n", "g", "s",
      "b", "e", "r", "i", "c", "h", "t", "_">>

\* the values new Date() takes when processPDF builds the file name
Clock ==
    { [year |-> 2024, month |-> 3, day |-> 5, hours |-> 9, minutes |-> 30],
      [year |-> 2025, month |-> 12, day |-> 11, hours |-> 23, minutes |-> 59] }

\* const timestamp = new Date().toISOString().split('T')[0], for each value
\* of new Date()
timestamp == [now \in Clock |-> SplitT0(toISOString(now))]

\* `Beweissicherungsbericht_${sanitizedName}_${timestamp}.pdf`
Filename(name, now) ==
    FilenamePrefix \o sanitizedName(name) \o <<"_">> \o timestamp[now]
    \o <<".", "p", "d", "f">>

---------------------------------------------------------------------------
(* processPDF: the page regions and what is drawn. Lengths are in          *)
(* hundredths of a point (42.25 pt is 4225).                               *)

PDF_POSITIONS ==
    [page1Banner |-> [x |-> 49600, y |-> 0, width |-> 9900, height |-> 84200],
     headerLogo  |-> [x |-> 53300, y |-> 78200, width |-> 6200, height |-> 6000],
     partnerLogo |-> [x |-> 5700, y |-> 75000, maxWidth |-> 15000, maxHeight |-> 6000]]

\* const footerRegion = { x: 42, y: 42.25, width: 130, height: 10 }
footerRegion == [x |-> 4200, y |-> 4225, width |-> 13000, height |-> 1000]

\* drawWhiteRectangle(page, x, y, width, height): one opaque white fill
drawWhiteRectangle(pageIndex, r) ==
    <<[op |-> "drawRectangle", page |-> pageIndex,
       x |-> r.x, y |-> r.y, width |-> r.width, height |-> r.height]>>

\* an entry of flattenRegionsList
FlattenRegion(pageIndex, r) ==
    [pageIndex |-> pageIndex, x |-> r.x, y |-> r.y, width |-> r.width, height |-> r.height]

\* helveticaBold.widthOfTextAtSize(text, size), in hundredths of a point:
\* the widths of the glyphs of Helvetica-Bold, in thousandths of the size
GlyphWidthBold(ch) ==
    CASE ch = "M" -> 833 [] ch = "B" -> 722 [] ch = "b" -> 611 [] ch = "7" -> 556
      [] ch = " " -> 278 [] ch = "-" -> 333

RECURSIVE SumWidthsBold(_)
SumWidthsBold(text) ==
    IF text = <<>> THEN 0 ELSE GlyphWidthBold(Head(text)) + SumWidthsBold(Tail(text))

widthOfTextAtSize(text, size) == (SumWidthsBold(text) * size) \div 10

PageOps_AlwaysDate(i, c) ==
    drawWhiteRectangle(i, PDF_POSITIONS.headerLogo)
    \o drawWhiteRectangle(i, footerRegion)
    \o <<[op |-> "drawText", page |-> i, text |-> c.partnerName, font |-> "HelveticaBold",
          x |-> 4200, y |-> 4425, size |-> 8],
         [op |-> "drawText", page |-> i, text |-> <<",", " ">> \o c.extractedDate,
          font |-> "Helvetica", x |-> 4200 + widthOfTextAtSize(c.partnerName, 8),
          y |-> 4425, size |-> 8]>>

\* the body of for (let i = 1; i < pages.length; i++) for page i: the header
\* mask, the footer mask, the partner name in bold and, if (extractedDate),
\* the comma and the date in the regular font after the measured name
PageOps(i, c) ==
    drawWhiteRectangle(i, PDF_POSITIONS.headerLogo)
    \o drawWhiteRectangle(i, footerRegion)
    \o <<[op |-> "drawText", page |-> i, text |-> c.partnerName, font |-> "HelveticaBold",
          x |-> 4200, y |-> 4425, size |-> 8]>>
    \o (IF c.extractedDate # <<>>
        THEN <<[op |-> "drawText", page |-> i, text |-> <<",", " ">> \o c.extractedDate,
                font |-> "Helvetica", x |-> 4200 + widthOfTextAtSize(c.partnerName, 8),
                y |-> 4425, size |-> 8]>>
        ELSE <<>>)

PageRegions_FooterOnly(i) == <<FlattenRegion(i, footerRegion)>>

\* the two flattenRegionsList.push of the body of the loop, for page i
PageRegions(i) ==
    <<FlattenRegion(i, PDF_POSITIONS.headerLogo), FlattenRegion(i, footerRegion)>>

RECURSIVE LoopOps(_, _)
LoopOps(i, c) == IF i >= c.pages THEN <<>> ELSE PageOps(i, c) \o LoopOps(i + 1, c)

RECURSIVE LoopRegions(_, _)
LoopRegions(i, n) == IF i >= n THEN <<>> ELSE PageRegions(i) \o LoopRegions(i + 1, n)

AfterLogo_AllPages(c) ==
    [c EXCEPT !.pc = "save",
              !.ops = @ \o LoopOps(0, c)
                        \o <<[op |-> "setMetadata", name |-> c.partnerName]>>,
              !.regions = @ \o LoopRegions(0, c.pages)]

\* from the loop over pages 2+ to the call of pdfDoc.save(): the loop, then
\* setTitle, setProducer, setCreator
AfterLogo(c) ==
    [c EXCEPT !.pc = "save",
              !.ops = @ \o LoopOps(1, c)
                        \o <<[op |-> "setMetadata", name |-> c.partnerName]>>,
              !.regions = @ \o LoopRegions(1, c.pages)]

\* regionsByPage, then the two nested loops over it: the pages in the order
\* of their first region, each with its regions in the order of the list
RECURSIVE PagesInOrder(_, _)
PagesInOrder(regions, seen) ==
    IF regions = <<>> THEN <<>>
    ELSE IF Head(regions).pageIndex \in seen THEN PagesInOrder(Tail(regions), seen)
    ELSE <<Head(regions).pageIndex>>
         \o PagesInOrder(Tail(regions), seen \cup {Head(regions).pageIndex})

RegionsOfPage(regions, pageIndex) ==
    SelectSeq(regions, LAMBDA r : r.pageIndex = pageIndex)

RECURSIVE RenderOrderOf(_, _)
RenderOrderOf(regions, pageList) ==
    IF pageList = <<>> THEN <<>>
    ELSE RegionsOfPage(regions, Head(pageList)) \o RenderOrderOf(regions, Tail(pageList))

RenderOrder(regions) == RenderOrderOf(regions, PagesInOrder(regions, {}))

\* a call that has not started
NoCall ==
    [pc |-> "idle", caller |-> "", pdfBuffer |-> 0, partnerName |-> <<>>, logoFile |-> 0,
     logoBuffer |-> 0, logoMimeType |-> "", extractedDate |-> <<>>, pages |-> 0,
     ops |-> <<>>, regions |-> <<>>, rendered |-> <<>>, k |-> 0,
     thrown |-> <<>>, result |-> <<>>, end |-> ""]

InFlightPcs ==
    {"readLogo", "load", "fontBold", "fontRegular", "embedLogo", "save",
     "render", "flatLoad", "flatEmbed", "flatSave"}

InFlight(i) == conv[i].pc \in InFlightPcs

---------------------------------------------------------------------------
(* The form: Home of src/app/page.tsx.                                     *)

NoUpload == [pc |-> "idle", file |-> 0]

NoFn == [name |-> "none", input |-> <<>>, called |-> FALSE, output |-> <<>>]

InitForm ==
    /\ pdfFile = 0
    /\ pdfBuffer = 0
    /\ extractedDate = <<>>
    /\ partnerName = <<>>
    /\ logoFile = 0
    /\ logoPreview = FALSE
    /\ status = "idle"
    /\ errorMessage = ""
    /\ up = [j \in 1..MaxUploads |-> NoUpload]
    /\ conv = [i \in 1..MaxConversions |-> NoCall]
    /\ downloads = {}

Init == InitForm /\ fn = NoFn

Least(S) == CHOOSE n \in S : \A m \in S : n <= m

FreeUploads == {j \in 1..MaxUploads : up[j].pc = "idle"}
\* a call that has ended leaves its number to the next one
FreeConversions == {i \in 1..MaxConversions : ~InFlight(i)}

\* const isFormValid = pdfFile && partnerName.trim().length > 0
isFormValid == pdfFile # 0 /\ Len(Trim(partnerName)) > 0

\* the process button: disabled={!isFormValid || status === 'processing'}
ProcessEnabled == isFormValid /\ status # "processing"

\* processPdfFile(file) up to its first await, of fileToArrayBuffer(file)
CallProcessPdfFile(f) ==
    /\ FreeUploads # {}
    /\ up' = [up EXCEPT ![Least(FreeUploads)] = [pc |-> "read", file |-> f]]
    /\ UNCHANGED <<uiVars, conv, downloads, fn>>

SetErrorMessage(m) ==
    /\ errorMessage' = m
    /\ UNCHANGED <<pdfFile, pdfBuffer, extractedDate, partnerName, logoFile, logoPreview,
                   status, up, conv, downloads, fn>>

handlePdfDrop_NoValidation(f) ==
    IF f # 0
    THEN CallProcessPdfFile(f)
    ELSE SetErrorMessage(MsgInvalidPdf)

\* handlePdfDrop: e.dataTransfer.files[0] is f, or undefined (0)
handlePdfDrop(f) ==
    IF f # 0 /\ validatePDF(PdfFiles[f])
    THEN CallProcessPdfFile(f)
    ELSE SetErrorMessage(MsgInvalidPdf)

\* handlePdfChange: e.target.files?.[0] is f, or undefined (0)
handlePdfChange(f) ==
    IF f # 0 /\ validatePDF(PdfFiles[f])
    THEN CallProcessPdfFile(f)
    ELSE IF f # 0 THEN SetErrorMessage(MsgInvalidPdf)
    ELSE UNCHANGED vars

\* processPdfFile after await fileToArrayBuffer(file): setPdfBuffer(buffer)
\* and the call of extractDateFromPdf on a copy; or, the read rejected, the
\* catch block
ReadDone(j) ==
    /\ up[j].pc = "read"
    /\ \E ok \in BOOLEAN :
         IF ok
         THEN /\ pdfBuffer' = up[j].file
              /\ up' = [up EXCEPT ![j].pc = "extract"]
              /\ UNCHANGED errorMessage
         ELSE /\ errorMessage' = MsgReadError
              /\ up' = [up EXCEPT ![j] = NoUpload]
              /\ UNCHANGED pdfBuffer
    /\ UNCHANGED <<pdfFile, extractedDate, partnerName, logoFile, logoPreview, status,
                   conv, downloads, fn>>

\* processPdfFile after await extractDateFromPdf(copy): setExtractedDate,
\* setPdfFile, setStatus('idle'), setErrorMessage(''); or the catch block
ExtractDone(j) ==
    /\ up[j].pc = "extract"
    /\ LET r == extractDateFromPdf(PdfFiles[up[j].file].doc) IN
         IF r.threw
         THEN /\ errorMessage' = MsgReadError
              /\ up' = [up EXCEPT ![j] = NoUpload]
              /\ UNCHANGED <<extractedDate, pdfFile, status>>
         ELSE /\ extractedDate' = r.value
              /\ pdfFile' = up[j].file
              /\ status' = "idle"
              /\ errorMessage' = ""
              /\ up' = [up EXCEPT ![j] = NoUpload]
    /\ UNCHANGED <<pdfBuffer, partnerName, logoFile, logoPreview, conv, downloads, fn>>

\* the logo drop zone is rendered unless logoFile && logoPreview
LogoZoneShown == ~(logoFile # 0 /\ logoPreview)

SetLogo(l) ==
    /\ logoFile' = l
    /\ logoPreview' = TRUE
    /\ UNCHANGED <<pdfFile, pdfBuffer, extractedDate, partnerName, status, errorMessage,
                   up, conv, downloads, fn>>

handleLogoDrop_NoValidation(l) ==
    /\ LogoZoneShown
    /\ IF l # 0
       THEN SetLogo(l)
       ELSE SetErrorMessage(MsgInvalidImage)

\* handleLogoDrop: e.dataTransfer.files[0] is l, or undefined (0)
handleLogoDrop(l) ==
    /\ LogoZoneShown
    /\ IF l # 0 /\ validateImage(LogoFiles[l])
       THEN SetLogo(l)
       ELSE SetErrorMessage(MsgInvalidImage)

handleLogoChange(l) ==
    /\ LogoZoneShown
    /\ IF l # 0 /\ validateImage(LogoFiles[l])
       THEN SetLogo(l)
       ELSE IF l # 0 THEN SetErrorMessage(MsgInvalidImage)
       ELSE UNCHANGED vars

\* removeLogo, the button shown with the preview
removeLogo ==
    /\ ~LogoZoneShown
    /\ logoFile' = 0
    /\ logoPreview' = FALSE
    /\ UNCHANGED <<pdfFile, pdfBuffer, extractedDate, partnerName, status, errorMessage,
                   up, conv, downloads, fn>>

\* onChange={(e) => setPartnerName(e.target.value)}
SetPartnerName(v) ==
    /\ v # partnerName
    /\ partnerName' = v
    /\ UNCHANGED <<pdfFile, pdfBuffer, extractedDate, logoFile, logoPreview, status,
                   errorMessage, up, conv, downloads, fn>>

handleReset_Cancels ==
    /\ pdfFile' = 0 /\ pdfBuffer' = 0 /\ extractedDate' = <<>> /\ partnerName' = <<>>
    /\ logoFile' = 0 /\ logoPreview' = FALSE /\ status' = "idle" /\ errorMessage' = ""
    /\ conv' = [i \in 1..MaxConversions |-> NoCall]
    /\ UNCHANGED <<up, downloads, fn>>

handleReset ==
    /\ pdfFile' = 0
    /\ pdfBuffer' = 0
    /\ extractedDate' = <<>>
    /\ partnerName' = <<>>
    /\ logoFile' = 0
    /\ logoPreview' = FALSE
    /\ status' = "idle"
    /\ errorMessage' = ""
    /\ UNCHANGED <<up, conv, downloads, fn>>

---------------------------------------------------------------------------
(* processPDF: what each await leaves. A call c is the frame of processPDF *)
(* (and of handleProcess when it is the caller); each operator gives the   *)
(* frames the call can be in at its next await, or once settled.           *)

\* processPDF throws: its promise is rejected
Thrown(c, error) == [c EXCEPT !.pc = "rejected", !.thrown = <<error>>]

\* return { pdfBuffer: flattenedPdfBytes, filename }, new Date() being now
Returned(c, now) ==
    [c EXCEPT !.pc = "resolved",
              !.result = <<[pdfBuffer |-> c.ops, filename |-> Filename(c.partnerName, now)]>>]

PdfLoad_CheckLate(c) ==
    LET f == PdfFiles[c.pdfBuffer]
        d == [c EXCEPT !.ops = Append(@, [op |-> "load"]), !.pages = f.doc.numPages]
    IN  IF ~f.parses THEN {Thrown(c, LibError("PDFDocument.load"))}
        ELSE {[d EXCEPT !.pc = "fontBold"]}

\* after await PDFDocument.load: getPages, the check of pages.length, and the
\* call of embedFont(HelveticaBold)
PdfLoad(c) ==
    LET f == PdfFiles[c.pdfBuffer]
        d == [c EXCEPT !.ops = Append(@, [op |-> "load"]), !.pages = f.doc.numPages]
    IN  IF ~f.parses THEN {Thrown(c, LibError("PDFDocument.load"))}
        ELSE IF d.pages = 0 THEN {Thrown(d, NewError(MsgNoPages))}
        ELSE {[d EXCEPT !.pc = "fontBold"]}

\* after await embedFont(HelveticaBold): the call of embedFont(Helvetica)
EmbedFontBold(c) ==
    { [c EXCEPT !.pc = "fontRegular",
                !.ops = Append(@, [op |-> "embedFont", font |-> "HelveticaBold"])],
      Thrown(c, LibError("embedFont")) }

LogoCatch_Rethrow(error) == error

\* catch (error) { throw new Error('Das Logo konnte nicht ...') }
LogoCatch(error) == NewError(MsgLogo)

\* after await embedFont(Helvetica): the banner mask and its region, then
\* if (logoBuffer && logoMimeType) the choice of embedPng or embedJpg by the
\* type, inside the try block; without a logo, on to the pages
EmbedFontRegular(c) ==
    LET d == [c EXCEPT
                !.ops = Append(@, [op |-> "embedFont", font |-> "Helvetica"])
                        \o drawWhiteRectangle(0, PDF_POSITIONS.page1Banner),
                !.regions = Append(@, FlattenRegion(0, PDF_POSITIONS.page1Banner))]
    IN  { IF c.logoBuffer # 0 /\ c.logoMimeType # ""
          THEN IF c.logoMimeType \in {"image/png", "image/jpeg", "image/jpg"}
               THEN [d EXCEPT !.pc = "embedLogo"]
               ELSE Thrown(d, LogoCatch(NewError(MsgUnsupported(c.logoMimeType))))
          ELSE AfterLogo(d),
          Thrown(c, LibError("embedFont")) }

\* embedPng resolves on the bytes of a PNG, embedJpg on those of a JPEG
EmbedsAs(mime, format) ==
    IF mime = "image/png" THEN format = "png" ELSE format = "jpeg"

\* after await embedPng / embedJpg: scaleToFit, drawImage on page 1, then
\* the pages 2+ and the call of save; or the catch block of the logo
EmbedLogo(c) ==
    LET embed == IF c.logoMimeType = "image/png" THEN "embedPng" ELSE "embedJpg"
        d == [c EXCEPT !.ops = @ \o
                <<[op |-> embed, image |-> c.logoBuffer],
                  [op |-> "drawImage", page |-> 0, image |-> c.logoBuffer,
                   x |-> PDF_POSITIONS.partnerLogo.x, y |-> PDF_POSITIONS.partnerLogo.y,
                   maxWidth |-> PDF_POSITIONS.partnerLogo.maxWidth,
                   maxHeight |-> PDF_POSITIONS.partnerLogo.maxHeight]>>]
    IN  IF EmbedsAs(c.logoMimeType, LogoFiles[c.logoBuffer].format)
        THEN {AfterLogo(d)}
        ELSE {Thrown(c, LogoCatch(LibError(embed)))}

\* after await pdfDoc.save(): flattenRegions(modifiedPdfBytes, list) up to
\* its first await, the rendering of the first region
SavePdf(c) ==
    { [c EXCEPT !.ops = Append(@, [op |-> "save"]),
                !.k = 1,
                !.pc = IF RenderOrder(c.regions) = <<>> THEN "flatLoad" ELSE "render"],
      Thrown(c, LibError("save")) }

RenderRegion_Unmasks(c) ==
    LET order == RenderOrder(c.regions)
        r == order[c.k]
        fill == [op |-> "drawRectangle", page |-> r.pageIndex,
                 x |-> r.x, y |-> r.y, width |-> r.width, height |-> r.height]
    IN  { [c EXCEPT !.rendered = IF ok THEN Append(@, r) ELSE @,
                    !.ops = IF ok THEN Append(@, [op |-> "render", region |-> r])
                            ELSE Append(SelectSeq(@, LAMBDA o : o # fill),
                                        [op |-> "renderFailed", region |-> r]),
                    !.k = IF c.k = Len(order) THEN 1 ELSE c.k + 1,
                    !.pc = IF c.k = Len(order) THEN "flatLoad" ELSE "render"]
          : ok \in BOOLEAN }

RenderRegion_Aborts(c) ==
    LET order == RenderOrder(c.regions)
        r == order[c.k]
    IN  { [c EXCEPT !.rendered = Append(@, r),
                    !.ops = Append(@, [op |-> "render", region |-> r]),
                    !.k = IF c.k = Len(order) THEN 1 ELSE c.k + 1,
                    !.pc = IF c.k = Len(order) THEN "flatLoad" ELSE "render"],
          Thrown(c, LibError("renderRegionToImage")) }

\* flattenRegions: try { imageBytes = await renderRegionToImage(...);
\* renderedRegions.push(...) } catch (error) { console.error(...) }
RenderRegion(c) ==
    LET order == RenderOrder(c.regions)
        r == order[c.k]
    IN  { [c EXCEPT !.rendered = IF ok THEN Append(@, r) ELSE @,
                    !.ops = Append(@, [op |-> IF ok THEN "render" ELSE "renderFailed",
                                       region |-> r]),
                    !.k = IF c.k = Len(order) THEN 1 ELSE c.k + 1,
                    !.pc = IF c.k = Len(order) THEN "flatLoad" ELSE "render"]
          : ok \in BOOLEAN }

\* flattenRegions after await PDFDocument.load(pdfBytes)
FlatLoad(c) ==
    { [c EXCEPT !.ops = Append(@, [op |-> "flatLoad"]),
                !.k = 1,
                !.pc = IF c.rendered = <<>> THEN "flatSave" ELSE "flatEmbed"],
      Thrown(c, LibError("PDFDocument.load")) }

\* flattenRegions after await pdfDoc.embedPng(imageBytes): page.drawImage
\* over the region
FlatEmbed(c) ==
    LET r == c.rendered[c.k] IN
    { [c EXCEPT !.ops = @ \o <<[op |-> "flatEmbedPng", region |-> r],
                               [op |-> "flatDrawImage", region |-> r]>>,
                !.k = IF c.k = Len(c.rendered) THEN 1 ELSE c.k + 1,
                !.pc = IF c.k = Len(c.rendered) THEN "flatSave" ELSE "flatEmbed"],
      Thrown(c, LibError("embedPng")) }

\* flattenRegions after await pdfDoc.save(), and processPDF after await
\* flattenRegions: the file name and the result
FlatSave(c) ==
    { Returned([c EXCEPT !.ops = Append(@, [op |-> "flatSave"])], now) : now \in Clock }
    \cup { Thrown(c, LibError("save")) }

\* the call after its next await
Await(c) ==
    CASE c.pc = "load" -> PdfLoad(c)
      [] c.pc = "fontBold" -> EmbedFontBold(c)
      [] c.pc = "fontRegular" -> EmbedFontRegular(c)
      [] c.pc = "embedLogo" -> EmbedLogo(c)
      [] c.pc = "save" -> SavePdf(c)
      [] c.pc = "render" -> RenderRegion(c)
      [] c.pc = "flatLoad" -> FlatLoad(c)
      [] c.pc = "flatEmbed" -> FlatEmbed(c)
      [] c.pc = "flatSave" -> FlatSave(c)
      [] OTHER -> {}

Settled(c) == c.pc \in {"resolved", "rejected"}

---------------------------------------------------------------------------
(* handleProcess.                                                          *)

\* a call goes on to its next await
Pending(i, c) ==
    /\ conv' = [conv EXCEPT ![i] = c]
    /\ UNCHANGED <<uiVars, up, downloads, fn>>

CatchBlock_Downloads(i, c, error) ==
    /\ conv' = [conv EXCEPT ![i] = [c EXCEPT !.end = "error"]]
    /\ downloads' = downloads \cup {i}
    /\ status' = "error"
    /\ errorMessage' = ErrorText(error)
    /\ UNCHANGED <<pdfFile, pdfBuffer, extractedDate, partnerName, logoFile, logoPreview,
                   up, fn>>

CatchBlock_ClearsInput(i, c, error) ==
    /\ conv' = [conv EXCEPT ![i] = [c EXCEPT !.end = "error"]]
    /\ status' = "error"
    /\ errorMessage' = ErrorText(error)
    /\ pdfBuffer' = 0
    /\ UNCHANGED <<pdfFile, extractedDate, partnerName, logoFile, logoPreview,
                   up, downloads, fn>>

\* catch (error) { setStatus('error'); setErrorMessage(...) }
CatchBlock(i, c, error) ==
    /\ conv' = [conv EXCEPT ![i] = [c EXCEPT !.end = "error"]]
    /\ status' = "error"
    /\ errorMessage' = ErrorText(error)
    /\ UNCHANGED <<pdfFile, pdfBuffer, extractedDate, partnerName, logoFile, logoPreview,
                   up, downloads, fn>>

\* after await processPDF(...): downloadPDF(result.pdfBuffer,
\* result.filename); setStatus('success')
AfterProcessPDF(i, c) ==
    /\ conv' = [conv EXCEPT ![i] = [c EXCEPT !.end = "success"]]
    /\ downloads' = downloads \cup {i}
    /\ status' = "success"
    /\ UNCHANGED <<pdfFile, pdfBuffer, extractedDate, partnerName, logoFile, logoPreview,
                   errorMessage, up, fn>>

\* handleProcess after await processPDF(...) has left d: kept is what the
\* call holds from then on
Settle(i, d, kept) ==
    IF d.pc = "rejected" THEN CatchBlock(i, kept, d.thrown[1])
    ELSE IF d.pc = "resolved" THEN AfterProcessPDF(i, kept)
    ELSE Pending(i, kept)

\* processPDF is at its next await, or settled: then its caller goes on
Continue(i, d) ==
    IF d.caller = "handleProcess" THEN Settle(i, d, d) ELSE Pending(i, d)

Clicked_Untrimmed ==
    [NoCall EXCEPT !.pc = IF logoFile # 0 THEN "readLogo" ELSE "load",
                   !.caller = "handleProcess",
                   !.pdfBuffer = pdfBuffer,
                   !.partnerName = partnerName,
                   !.logoFile = logoFile,
                   !.extractedDate = extractedDate]

\* the options of the call processPDF({ pdfBuffer, partnerName:
\* partnerName.trim(), logoBuffer, logoMimeType, extractedDate }), as
\* handleProcess holds them from the click on
Clicked ==
    [NoCall EXCEPT !.pc = IF logoFile # 0 THEN "readLogo" ELSE "load",
                   !.caller = "handleProcess",
                   !.pdfBuffer = pdfBuffer,
                   !.partnerName = Trim(partnerName),
                   !.logoFile = logoFile,
                   !.extractedDate = extractedDate]

\* handleProcess, the click on the process button, up to its first await
handleProcess ==
    /\ ProcessEnabled
    /\ IF pdfBuffer = 0 \/ Len(Trim(partnerName)) = 0
       THEN UNCHANGED vars
       ELSE /\ FreeConversions # {}
            /\ status' = "processing"
            /\ errorMessage' = ""
            /\ conv' = [conv EXCEPT ![Least(FreeConversions)] = Clicked]
            /\ downloads' = downloads \ {Least(FreeConversions)}
            /\ UNCHANGED <<pdfFile, pdfBuffer, extractedDate, partnerName, logoFile,
                           logoPreview, up, fn>>

\* after await fileToArrayBuffer(logoFile): logoMimeType = logoFile.type and
\* the call of processPDF, up to PDFDocument.load
LogoReadDone(i) ==
    /\ conv[i].pc = "readLogo"
    /\ \E ok \in BOOLEAN :
         IF ok
         THEN Pending(i, [conv[i] EXCEPT !.pc = "load",
                                         !.logoBuffer = conv[i].logoFile,
                                         !.logoMimeType = LogoFiles[conv[i].logoFile].type])
         ELSE CatchBlock(i, [NoCall EXCEPT !.pc = "rejected", !.caller = "handleProcess"],
                         LibError("FileReader"))

\* how a settled call of processPDF ended, for its caller
Ending(d) == [pc |-> d.pc, thrown |-> d.thrown]

\* the ways await processPDF(options) can end, for its caller
RECURSIVE Endings(_)
Endings(c) == IF Settled(c) THEN {Ending(c)} ELSE UNION {Endings(d) : d \in Await(c)}

\* after await processPDF(...), however its awaits went; the frame of
\* processPDF is gone once it has settled
ProcessPDFDone(i) ==
    /\ conv[i].pc = "load"
    /\ conv[i].caller = "handleProcess"
    /\ \E d \in Endings(conv[i]) :
         Settle(i, d, [NoCall EXCEPT !.pc = d.pc, !.caller = "handleProcess"])

UserAction ==
    \/ \E f \in DropPdfs \cup {0} : handlePdfDrop(f)
    \/ \E f \in DropPdfs \cup {0} : handlePdfChange(f)
    \/ \E l \in DropLogos \cup {0} : handleLogoDrop(l)
    \/ \E l \in DropLogos \cup {0} : handleLogoChange(l)
    \/ removeLogo
    \/ \E v \in Names : SetPartnerName(v)
    \/ handleProcess
    \/ handleReset

Next ==
    \/ UserAction
    \/ \E j \in 1..MaxUploads : ReadDone(j)
    \/ \E j \in 1..MaxUploads : ExtractDone(j)
    \/ \E i \in 1..MaxConversions : LogoReadDone(i)
    \/ \E i \in 1..MaxConversions : ProcessPDFDone(i)

Spec == Init /\ [][Next]_vars

\* every awaited call of a conversion returns: the continuation of a
\* pending await is run by the event loop
FairSpec ==
    /\ Spec
    /\ \A i \in 1..MaxConversions :
         WF_vars(LogoReadDone(i)) /\ WF_vars(ProcessPDFDone(i))

ConversionsInFlight == {i \in 1..MaxConversions : InFlight(i)}

\* C1: at most one conversion is in flight, and while one is in flight
\* the process button is not enabled
C1_OneConversionInFlight ==
    /\ Cardinality(ConversionsInFlight) <= 1
    /\ ConversionsInFlight # {} => ~ProcessEnabled

\* the call has ended with the download and status 'success', or with
\* status 'error' and no download
EndsWell(i) ==
    \/ conv[i].end = "success" /\ i \in downloads /\ status = "success"
    \/ conv[i].end = "error" /\ i \notin downloads /\ status = "error"

\* C3: whatever happens while a conversion is in flight, its call stays as
\* it is, goes from the reading of the logo on to processPDF with the
\* options it holds, or ends, in exactly one of the two ways: no step stops
\* it; and every conversion in flight ends
C3_NoCancellation ==
    /\ [][\A i \in 1..MaxConversions :
            InFlight(i) =>
                \/ conv'[i] = conv[i]
                \/ /\ conv[i].pc = "readLogo"
                   /\ conv'[i] = [conv[i] EXCEPT
                                    !.pc = "load",
                                    !.logoBuffer = conv[i].logoFile,
                                    !.logoMimeType = LogoFiles[conv[i].logoFile].type]
                \/ /\ conv'[i].pc \in {"resolved", "rejected"}
                   /\ EndsWell(i)']_vars
    /\ \A i \in 1..MaxConversions :
         InFlight(i) ~> conv[i].end \in {"success", "error"}

\* a conversion has ended with its download although the form was reset
\* while it was in flight
C3_Witness ==
    /\ conv[1].end = "success"
    /\ 1 \in downloads
    /\ status = "success"
    /\ pdfFile = 0 /\ partnerName = <<>>

\* C4, its first stage: when a conversion starts, the extraction of the
\* date of the document it converts has finished (processPdfFile sets
\* pdfFile, with the date, only then)
C4_ExtractionBeforeConversion ==
    [][\A i \in 1..MaxConversions :
          ~InFlight(i) /\ conv'[i].pc \in InFlightPcs => conv'[i].pdfBuffer = pdfFile]_vars

\* what extractDateFromPdf returns on the document of the file f
DateOf(f) == extractDateFromPdf(PdfFiles[f].doc)

\* a conversion starts in this step, as the call i
Starts(i) == ~InFlight(i) /\ conv'[i].pc \in InFlightPcs

\* C22: whenever a conversion starts, the extractedDate it passes to
\* processPDF is what extractDateFromPdf returns on the document whose
\* bytes it passes as pdfBuffer
C22_DateOfConvertedDocument ==
    [][\A i \in 1..MaxConversions :
          Starts(i) =>
              /\ ~DateOf(conv'[i].pdfBuffer).threw
              /\ conv'[i].extractedDate = DateOf(conv'[i].pdfBuffer).value]_vars

\* handleProcess: if (!pdfBuffer || !partnerName.trim()) return
ClickReturns == pdfBuffer = 0 \/ Len(Trim(partnerName)) = 0

\* C23: pdfFile set implies pdfBuffer set, and whenever the process button
\* is enabled a click on it does not return at the guard of handleProcess
\* but starts a conversion
C23_EnabledClickStarts ==
    /\ pdfFile # 0 => pdfBuffer # 0
    /\ ProcessEnabled => ~ClickReturns

\* C24: processPDF is only called from handleProcess with a pdfBuffer that
\* is not null and a partnerName that is trimmed and not empty
C24_CalledWithBufferAndName ==
    \A i \in 1..MaxConversions :
        conv[i].caller = "handleProcess" /\ conv[i].pc = "load" =>
            /\ conv[i].pdfBuffer # 0
            /\ Len(conv[i].partnerName) > 0
            /\ Trim(conv[i].partnerName) = conv[i].partnerName

\* processPDF has been called, after the reading of the logo, with the
\* name "MB" while the field holds " MB"
C24_Witness ==
    /\ conv[1].caller = "handleProcess" /\ conv[1].pc = "load"
    /\ partnerName = NameMB
    /\ conv[1].partnerName = <<"M", "B">>
    /\ conv[1].pdfBuffer = 2
    /\ conv[1].logoBuffer # 0

\* C25: with status 'error' an error message is shown, and with status
\* 'success' none is (the banner of the error is rendered if errorMessage
\* is not empty, that of the success if status is 'success')
C25_StatusAndMessage ==
    /\ status = "error" => errorMessage # ""
    /\ status = "success" => errorMessage = ""

\* the form holds what the call was started on
FormHolds(c) ==
    /\ pdfFile # 0
    /\ pdfBuffer = c.pdfBuffer
    /\ Trim(partnerName) = c.partnerName
    /\ logoFile = c.logoFile
    /\ extractedDate = c.extractedDate

\* the call as handleProcess started it
AsClicked(c) ==
    [c EXCEPT !.pc = IF c.logoFile # 0 THEN "readLogo" ELSE "load",
              !.logoBuffer = 0, !.logoMimeType = ""]

\* C15, for the step that ends a conversion in 'error': it changes none of
\* pdfFile, pdfBuffer, extractedDate, partnerName, logoFile and logoPreview
\* and sets status 'error'; if the form then holds what the conversion was
\* started on, the process button is enabled and a click starts a
\* conversion on the same options
C15_ErrorStepKeepsInput ==
    [][\A i \in 1..MaxConversions :
          InFlight(i) /\ conv'[i].end = "error" =>
              /\ UNCHANGED <<pdfFile, pdfBuffer, extractedDate, partnerName,
                             logoFile, logoPreview>>
              /\ status' = "error"
              /\ FormHolds(conv[i]) =>
                   /\ ProcessEnabled'
                   /\ pdfBuffer' # 0
                   /\ Clicked' = AsClicked(conv[i])]_vars

\* a conversion has ended in 'error' and the form, with its document and
\* its name, can be submitted again
C15_Witness ==
    /\ conv[1].end = "error"
    /\ status = "error"
    /\ errorMessage # ""
    /\ pdfFile # 0 /\ pdfBuffer = pdfFile
    /\ ProcessEnabled

\* C15, as claimed: when a conversion has ended in 'error' the form holds
\* what the conversion was started on, and the process button is enabled
C15_InputAsAtStart ==
    [][\A i \in 1..MaxConversions :
          InFlight(i) /\ conv'[i].end = "error" =>
              /\ pdfFile' # 0
              /\ pdfBuffer' = conv[i].pdfBuffer
              /\ Trim(partnerName') = conv[i].partnerName
              /\ logoFile' = conv[i].logoFile
              /\ extractedDate' = conv[i].extractedDate
              /\ ProcessEnabled']_vars

\* the handler rejects the file: it sets the message and nothing else
Rejected(message) ==
    /\ errorMessage' = message
    /\ UNCHANGED <<pdfFile, pdfBuffer, extractedDate, partnerName, logoFile, logoPreview,
                   status, up, conv, downloads>>

\* C16: a drop or a selection of a file that fails validatePDF (validateImage
\* for the logo) starts no call of processPdfFile, leaves pdfFile, pdfBuffer,
\* extractedDate, logoFile, the preview, partnerName, status and every call
\* under way as they are, and sets the message that asks for a valid file;
\* so no file that fails the validation is ever read, extracted from or
\* stored
C16_InvalidFileRejected ==
    /\ [][/\ \A f \in DropPdfs :
               ~validatePDF(PdfFiles[f]) /\ (handlePdfDrop(f) \/ handlePdfChange(f))
                   => Rejected(MsgInvalidPdf)
          /\ \A l \in DropLogos :
               ~validateImage(LogoFiles[l]) /\ (handleLogoDrop(l) \/ handleLogoChange(l))
                   => Rejected(MsgInvalidImage)]_vars
    /\ [](/\ \A j \in 1..MaxUploads : up[j].file # 0 => validatePDF(PdfFiles[up[j].file])
          /\ pdfFile # 0 => validatePDF(PdfFiles[pdfFile])
          /\ pdfBuffer # 0 => validatePDF(PdfFiles[pdfBuffer])
          /\ logoFile # 0 => validateImage(LogoFiles[logoFile]))

\* a file has been rejected while a document, its date, a name and a logo
\* are stored and no upload is under way
C16_Witness ==
    /\ errorMessage = MsgInvalidPdf
    /\ pdfFile # 0 /\ pdfBuffer = pdfFile /\ extractedDate # <<>>
    /\ logoFile # 0
    /\ partnerName = NameMB
    /\ status = "success"
    /\ \A j \in 1..MaxUploads : up[j] = NoUpload

---------------------------------------------------------------------------
(* scaleToFit by itself: a call on an image of any size up to MaxDim, for  *)
(* the box of the partner logo and other boxes. Sizes are in points and    *)
(* pixels, as whole numbers.                                               *)

Boxes ==
    { [maxWidth |-> PDF_POSITIONS.partnerLogo.maxWidth \div 100,
       maxHeight |-> PDF_POSITIONS.partnerLogo.maxHeight \div 100],
      [maxWidth |-> 100, maxHeight |-> 100],
      [maxWidth |-> 3, maxHeight |-> 7] }

InitScale ==
    /\ InitForm
    /\ \E w \in 1..MaxDim, h \in 1..MaxDim, box \in Boxes :
         fn = [name |-> "scaleToFit",
               input |-> [originalWidth |-> w, originalHeight |-> h,
                          maxWidth |-> box.maxWidth, maxHeight |-> box.maxHeight],
               called |-> FALSE, output |-> <<>>]

CallScaleToFit ==
    /\ fn.name = "scaleToFit"
    /\ ~fn.called
    /\ fn' = [fn EXCEPT !.called = TRUE,
                        !.output = scaleToFit(FromInt(fn.input.originalWidth),
                                              FromInt(fn.input.originalHeight),
                                              FromInt(fn.input.maxWidth),
                                              FromInt(fn.input.maxHeight))]
    /\ UNCHANGED <<uiVars, up, conv, downloads>>

NextScale == CallScaleToFit

SpecScale == InitScale /\ [][NextScale]_vars

Min2(a, b) == IF a < b THEN a ELSE b

\* a * x <= b * y, exactly, for numbers a, b and integers x, y >= 0
LeqTimes(a, x, b, y) ==
    LET e0 == Min2(a.e, b.e)
    IN  a.m * Pow2(a.e - e0) * x <= b.m * Pow2(b.e - e0) * y

EqTimes(a, x, b, y) == LeqTimes(a, x, b, y) /\ LeqTimes(b, y, a, x)

\* a relative tolerance of four units of roundoff: 1 + 2^(2 - MantBits) is
\* TolUp / TolOne, 1 - 2^(2 - MantBits) is TolDown / TolOne
TolOne == Pow2(MantBits - 2)
TolUp == TolOne + 1
TolDown == TolOne - 1

ScaleCalled == fn.called /\ fn.name = "scaleToFit"

\* C10, as claimed: width <= maxWidth, height <= maxHeight,
\* width * originalHeight = height * originalWidth, and width = maxWidth
\* or height = maxHeight, exactly
C10_ScaleToFitExact ==
    ScaleCalled =>
        LET inp == fn.input
            out == fn.output
        IN  /\ ~FLess(FromInt(inp.maxWidth), out.width)
            /\ ~FLess(FromInt(inp.maxHeight), out.height)
            /\ EqTimes(out.width, inp.originalHeight, out.height, inp.originalWidth)
            /\ out.width = FromInt(inp.maxWidth) \/ out.height = FromInt(inp.maxHeight)

\* C10, within rounding: width and height exceed maxWidth and maxHeight by
\* no more than the tolerance, width * originalHeight and
\* height * originalWidth differ by no more than the tolerance, and width
\* reaches maxWidth, or height maxHeight, within the tolerance
C10_ScaleToFitWithinRounding ==
    ScaleCalled =>
        LET inp == fn.input
            out == fn.output
            mw == FromInt(inp.maxWidth)
            mh == FromInt(inp.maxHeight)
        IN  /\ LeqTimes(out.width, TolOne, mw, TolUp)
            /\ LeqTimes(out.height, TolOne, mh, TolUp)
            /\ LeqTimes(out.width, inp.originalHeight * TolOne,
                        out.height, inp.originalWidth * TolUp)
            /\ LeqTimes(out.height, inp.originalWidth * TolOne,
                        out.width, inp.originalHeight * TolUp)
            /\ \/ LeqTimes(mw, TolDown, out.width, TolOne)
               \/ LeqTimes(mh, TolDown, out.height, TolOne)

\* an image larger than the box has been shrunk and one smaller than the
\* box enlarged: here a small image, enlarged to a height that rounding
\* takes beyond maxHeight
C10_Witness ==
    /\ ScaleCalled
    /\ fn.input.originalWidth < fn.input.maxWidth
    /\ fn.input.originalHeight < fn.input.maxHeight
    /\ FLess(FromInt(fn.input.maxHeight), fn.output.height)

---------------------------------------------------------------------------
(* processPDF by itself, one await at a time: called with any options      *)
(* (caller "direct"), or by handleProcess on what the form can hold.       *)

\* the values of options.logoMimeType
MimeTypes == {"", "image/png", "image/jpeg", "image/jpg", "image/gif"}

\* the options of a call
Options ==
    { [pdfBuffer |-> f, logoBuffer |-> l, logoMimeType |-> m, extractedDate |-> d]
        : f \in AllPdfs, l \in AllLogos \cup {0}, m \in MimeTypes, d \in {<<>>, TextDate} }

\* the options handleProcess can pass: a file that passed validatePDF and
\* was read, its date, and no logo or one that passed validateImage, with
\* its type
FormOptions ==
    { o \in Options :
        /\ validatePDF(PdfFiles[o.pdfBuffer])
        /\ o.extractedDate = extractDateFromPdf(PdfFiles[o.pdfBuffer].doc).value
        /\ IF o.logoBuffer = 0 THEN o.logoMimeType = ""
           ELSE /\ validateImage(LogoFiles[o.logoBuffer])
                /\ o.logoMimeType = LogoFiles[o.logoBuffer].type }

\* processPDF(o) up to its first await, PDFDocument.load
Called(caller, o) ==
    [NoCall EXCEPT !.pc = "load", !.caller = caller, !.pdfBuffer = o.pdfBuffer,
                   !.partnerName = Trim(NameMB), !.logoFile = o.logoBuffer,
                   !.logoBuffer = o.logoBuffer, !.logoMimeType = o.logoMimeType,
                   !.extractedDate = o.extractedDate]

InitPipeline ==
    /\ fn = NoFn
    /\ up = [j \in 1..MaxUploads |-> NoUpload]
    /\ downloads = {}
    /\ errorMessage = ""
    /\ \/ \E o \in Options :
            /\ conv = [i \in 1..MaxConversions |->
                         IF i = 1 THEN Called("direct", o) ELSE NoCall]
            /\ pdfFile = 0 /\ pdfBuffer = 0 /\ extractedDate = <<>>
            /\ partnerName = <<>> /\ logoFile = 0 /\ logoPreview = FALSE
            /\ status = "idle"
       \/ \E o \in FormOptions :
            /\ conv = [i \in 1..MaxConversions |->
                         IF i = 1 THEN Called("handleProcess", o) ELSE NoCall]
            /\ pdfFile = o.pdfBuffer /\ pdfBuffer = o.pdfBuffer
            /\ extractedDate = o.extractedDate
            /\ partnerName = NameMB
            /\ logoFile = o.logoBuffer /\ logoPreview = (o.logoBuffer # 0)
            /\ status = "processing"

\* the call goes past the await it is at
AwaitPdfLoad ==
    /\ conv[1].pc = "load"
    /\ \E d \in PdfLoad(conv[1]) : Continue(1, d)

AwaitEmbedFontBold ==
    /\ conv[1].pc = "fontBold"
    /\ \E d \in EmbedFontBold(conv[1]) : Continue(1, d)

AwaitEmbedFontRegular ==
    /\ conv[1].pc = "fontRegular"
    /\ \E d \in EmbedFontRegular(conv[1]) : Continue(1, d)

AwaitEmbedLogo ==
    /\ conv[1].pc = "embedLogo"
    /\ \E d \in EmbedLogo(conv[1]) : Continue(1, d)

AwaitSavePdf ==
    /\ conv[1].pc = "save"
    /\ \E d \in SavePdf(conv[1]) : Continue(1, d)

AwaitRenderRegion ==
    /\ conv[1].pc = "render"
    /\ \E d \in RenderRegion(conv[1]) : Continue(1, d)

AwaitFlatLoad ==
    /\ conv[1].pc = "flatLoad"
    /\ \E d \in FlatLoad(conv[1]) : Continue(1, d)

AwaitFlatEmbed ==
    /\ conv[1].pc = "flatEmbed"
    /\ \E d \in FlatEmbed(conv[1]) : Continue(1, d)

AwaitFlatSave ==
    /\ conv[1].pc = "flatSave"
    /\ \E d \in FlatSave(conv[1]) : Continue(1, d)

NextPipeline ==
    \/ AwaitPdfLoad
    \/ AwaitEmbedFontBold
    \/ AwaitEmbedFontRegular
    \/ AwaitEmbedLogo
    \/ AwaitSavePdf
    \/ AwaitRenderRegion
    \/ AwaitFlatLoad
    \/ AwaitFlatEmbed
    \/ AwaitFlatSave

SpecPipeline == InitPipeline /\ [][NextPipeline]_vars

\* the call has made a library or drawing call of this name
HasOp(c, name) == \E k \in 1..Len(c.ops) : c.ops[k].op = name

\* the call was started on some options
Started(c) == c.pdfBuffer # 0

\* both fonts are embedded: the call has come to the page-1 banner
FontsEmbedded(c) ==
    \E k \in 1..Len(c.ops) : c.ops[k].op = "embedFont" /\ c.ops[k].font = "Helvetica"

BannerMasked(c) ==
    \E k \in 1..Len(c.ops) :
        c.ops[k] = drawWhiteRectangle(0, PDF_POSITIONS.page1Banner)[1]

\* the steps a call that resolves has made: the load, both fonts, the logo
\* if one is given with its type, the save, and the load and the save of
\* flattenRegions
StepsDone(c) ==
    /\ HasOp(c, "load") /\ HasOp(c, "embedFont") /\ FontsEmbedded(c)
    /\ c.logoBuffer # 0 /\ c.logoMimeType # "" => HasOp(c, "drawImage")
    /\ HasOp(c, "save") /\ HasOp(c, "flatLoad") /\ HasOp(c, "flatSave")

\* C2, but for the regions flattenRegions skips: handleProcess calls
\* downloadPDF only once processPDF has resolved, which it does only with
\* every step done (the load, the fonts, the logo, the save, and the load,
\* the embedding and the save of the flattening; a region whose rendering
\* failed is skipped); once processPDF is rejected there is no download
\* and the form has status 'error' and the message of the error
C2_AllOrNothingButSkippedRegions ==
    \A i \in 1..MaxConversions :
        LET c == conv[i] IN
        c.caller = "handleProcess" =>
            /\ i \in downloads => c.pc = "resolved" /\ c.result # <<>> /\ StepsDone(c)
            /\ c.pc = "resolved" => i \in downloads /\ status = "success"
            /\ c.pc = "rejected" =>
                 /\ i \notin downloads
                 /\ c.result = <<>>
                 /\ status = "error"
                 /\ errorMessage = ErrorText(c.thrown[1])
                 /\ errorMessage # ""

\* handleProcess has caught a failure of the flattening
C2_Witness ==
    /\ conv[1].caller = "handleProcess"
    /\ conv[1].pc = "rejected"
    /\ HasOp(conv[1], "flatLoad")
    /\ status = "error"
    /\ errorMessage # ""
    /\ downloads = {}

\* C2, as claimed: handleProcess calls downloadPDF only once processPDF has
\* resolved, and when a step of processPDF has failed (the load, a font, the
\* logo, the save, or the flattening, the rendering of a region included)
\* there is no download and the form ends with status 'error' and a message
C2_AllOrNothing ==
    \A i \in 1..MaxConversions :
        LET c == conv[i]
            failed == c.pc = "rejected" \/ HasOp(c, "renderFailed")
        IN  c.caller = "handleProcess" =>
                /\ i \in downloads => c.pc = "resolved" /\ ~failed
                /\ failed => i \notin downloads
                /\ failed /\ Settled(c) => status = "error" /\ errorMessage # ""

ZeroPages(c) ==
    /\ Started(c)
    /\ PdfFiles[c.pdfBuffer].parses
    /\ PdfFiles[c.pdfBuffer].doc.numPages = 0

\* C7: on a document without pages processPDF makes no call after
\* PDFDocument.load (no font, no image, no drawing) and is rejected with
\* the 'no pages' error, without a result
C7_NoPagesBeforeAnyDrawing ==
    \A i \in 1..MaxConversions :
        LET c == conv[i] IN
        ZeroPages(c) =>
            /\ c.pc \in {"load", "rejected"}
            /\ \A k \in 1..Len(c.ops) : c.ops[k].op = "load"
            /\ c.result = <<>>
            /\ c.pc = "rejected" => c.thrown = <<NewError(MsgNoPages)>>

\* a document without pages has been rejected
C7_Witness ==
    /\ ZeroPages(conv[1])
    /\ conv[1].pc = "rejected"
    /\ conv[1].thrown = <<NewError(MsgNoPages)>>
    /\ HasOp(conv[1], "load")

SupportedMimeTypes == {"image/png", "image/jpeg", "image/jpg"}

\* C8: a logo whose declared type is none of image/png, image/jpeg,
\* image/jpg makes processPDF fail with the 'unsupported image format'
\* error, which is not the 'could not process logo' error
C8_UnsupportedFormatError ==
    \A i \in 1..MaxConversions :
        LET c == conv[i] IN
        (   /\ Started(c) /\ Settled(c) /\ FontsEmbedded(c)
            /\ c.logoBuffer # 0
            /\ c.logoMimeType \notin SupportedMimeTypes)
        =>  /\ c.pc = "rejected"
            /\ c.thrown = <<NewError(MsgUnsupported(c.logoMimeType))>>
            /\ c.thrown # <<NewError(MsgLogo)>>

\* the bytes of the logo are no image of the declared, supported type
CorruptLogo(c) ==
    /\ Started(c)
    /\ c.logoBuffer # 0
    /\ c.logoMimeType \in SupportedMimeTypes
    /\ ~EmbedsAs(c.logoMimeType, LogoFiles[c.logoBuffer].format)

\* C9: with a logo that is no decodable image of its declared type,
\* processPDF never resolves and has no result; once the fonts are embedded
\* it gets no further than the logo and is rejected with the logo error,
\* the page-1 banner mask being drawn; handleProcess then downloads nothing
\* and shows the error
C9_CorruptLogoFails ==
    \A i \in 1..MaxConversions :
        LET c == conv[i] IN
        CorruptLogo(c) =>
            /\ c.pc # "resolved" /\ c.result = <<>>
            /\ FontsEmbedded(c) =>
                 /\ c.pc \in {"embedLogo", "rejected"}
                 /\ BannerMasked(c)
                 /\ ~HasOp(c, "drawImage") /\ ~HasOp(c, "save")
                 /\ c.pc = "rejected" => c.thrown = <<NewError(MsgLogo)>>
            /\ c.caller = "handleProcess" =>
                 /\ i \notin downloads
                 /\ c.pc = "rejected" => c.end = "error" /\ status = "error"
                 /\ c.pc = "rejected" /\ FontsEmbedded(c) => errorMessage = MsgLogo

\* handleProcess has caught the logo error of processPDF, after the banner
\* mask
C9_Witness ==
    /\ CorruptLogo(conv[1])
    /\ conv[1].caller = "handleProcess"
    /\ conv[1].pc = "rejected"
    /\ conv[1].thrown = <<NewError(MsgLogo)>>
    /\ BannerMasked(conv[1])
    /\ status = "error"
    /\ downloads = {}

\* the calls that draw on a page
PageOpNames == {"drawRectangle", "drawText", "drawImage"}

\* the positions in the calls of c of those that draw on a page
Drawn(c) == {k \in 1..Len(c.ops) : c.ops[k].op \in PageOpNames}

\* the loop over the pages 2+ has run
LoopDone(c) == Started(c) /\ HasOp(c, "setMetadata")

IsFooterMask(o, p) == o = drawWhiteRectangle(p, footerRegion)[1]

IsPartnerName(o, p, c) ==
    /\ o.op = "drawText" /\ o.page = p
    /\ o.text = c.partnerName /\ o.font = "HelveticaBold"

SuffixOps(c, p) ==
    {k \in Drawn(c) :
        c.ops[k].op = "drawText" /\ c.ops[k].page = p /\ ~IsPartnerName(c.ops[k], p, c)}

\* C13: on every page 1..n-1 the text ', ' + extractedDate is drawn if and
\* only if extractedDate is not empty; it is then drawn once, after the
\* name, in the regular font, with the size and the y of the name, at the x
\* of the name plus the width of the name in the bold font at that size;
\* without a date the name is the only text of the page
C13_DateSuffix ==
    \A i \in 1..MaxConversions :
        LET c == conv[i] IN
        LoopDone(c) =>
            \A p \in 1..(c.pages - 1) :
                IF c.extractedDate = <<>>
                THEN SuffixOps(c, p) = {}
                ELSE /\ Cardinality(SuffixOps(c, p)) = 1
                     /\ \A k \in SuffixOps(c, p) :
                          \E n \in Drawn(c) :
                              /\ n < k
                              /\ IsPartnerName(c.ops[n], p, c)
                              /\ c.ops[k].text = <<",", " ">> \o c.extractedDate
                              /\ c.ops[k].font = "Helvetica"
                              /\ c.ops[k].y = c.ops[n].y
                              /\ c.ops[k].size = c.ops[n].size
                              /\ c.ops[k].x = c.ops[n].x
                                     + widthOfTextAtSize(c.partnerName, c.ops[n].size)

\* a dated document has been converted: ', 05.03.2024' is on its second
\* page, 12.44 points to the right of the name 'MB' (8 point bold)
C13_Witness ==
    /\ conv[1].pc = "resolved"
    /\ conv[1].extractedDate = TextDate
    /\ conv[1].pages >= 2
    /\ \E k \in SuffixOps(conv[1], 1) :
         /\ conv[1].ops[k].text = <<",", " ">> \o TextDate
         /\ conv[1].ops[k].x = 4200 + 1244

\* the regions flattenRegions has tried to render, in order
Attempts(c) ==
    SelectSeq(c.ops, LAMBDA o : o.op \in {"render", "renderFailed"})

\* the region has its vector white fill in the document
HasVectorFill(c, r) ==
    \E k \in Drawn(c) :
        c.ops[k] = drawWhiteRectangle(r.pageIndex,
                       [x |-> r.x, y |-> r.y, width |-> r.width, height |-> r.height])[1]

RenderFailed(c, r) ==
    \E k \in 1..Len(c.ops) : c.ops[k].op = "renderFailed" /\ c.ops[k].region = r

FlatDrawn(c, r) ==
    \E k \in 1..Len(c.ops) : c.ops[k].op = "flatDrawImage" /\ c.ops[k].region = r

\* the regions of the list
RegionSet(c) == {c.regions[k] : k \in 1..Len(c.regions)}

\* C14, for the rendering: the failure of renderRegionToImage on a region
\* does not end the call, which goes on to the next region or to the load;
\* whatever failed, flattenRegions tries every region of the list, in the
\* order of the pages; a call that resolves returns a document in which
\* every region has its vector fill, every region rendered has its raster
\* drawn over it, and every region whose rendering failed has none
C14_RenderFailureSkipsRegion ==
    /\ [][\A i \in 1..MaxConversions :
            conv[i].pc = "render" => conv'[i].pc \in {"render", "flatLoad"}]_vars
    /\ [](\A i \in 1..MaxConversions :
            LET c == conv[i] IN
            /\ Started(c) /\ HasOp(c, "flatLoad") =>
                 /\ Len(Attempts(c)) = Len(c.regions)
                 /\ \A k \in 1..Len(c.regions) :
                      Attempts(c)[k].region = RenderOrder(c.regions)[k]
            /\ Started(c) /\ c.pc = "resolved" =>
                 /\ c.result # <<>> /\ c.result[1].pdfBuffer = c.ops
                 /\ HasOp(c, "flatSave")
                 /\ \A r \in RegionSet(c) :
                      /\ HasVectorFill(c, r)
                      /\ FlatDrawn(c, r) <=> ~RenderFailed(c, r))

\* a document has been returned in which the rendering of the banner
\* region failed and the regions of the second page are rasters
C14_Witness ==
    /\ conv[1].pc = "resolved"
    /\ conv[1].pages >= 2
    /\ RenderFailed(conv[1], FlattenRegion(0, PDF_POSITIONS.page1Banner))
    /\ HasVectorFill(conv[1], FlattenRegion(0, PDF_POSITIONS.page1Banner))
    /\ FlatDrawn(conv[1], FlattenRegion(1, footerRegion))
    /\ FlatDrawn(conv[1], FlattenRegion(1, PDF_POSITIONS.headerLogo))

\* C14, as claimed: neither the failure of the rendering of a region nor
\* that of its re-embedding (embedPng, drawImage) ends the call
C14_RegionFailureNeverAborts ==
    [][\A i \in 1..MaxConversions :
          conv[i].pc \in {"render", "flatEmbed"} =>
              conv'[i].pc \in {"render", "flatLoad", "flatEmbed", "flatSave"}]_vars

\* C17: when processPDF is rejected with an error that is neither the
\* 'no pages' error nor the logo error (the library failing to load or to
\* save the document, or to embed a font), handleProcess sets status
\* 'error' and shows the generic message
C17_GenericFailureMessage ==
    \A i \in 1..MaxConversions :
        LET c == conv[i] IN
        (   /\ c.caller = "handleProcess"
            /\ c.pc = "rejected"
            /\ c.thrown[1] \notin {NewError(MsgNoPages), NewError(MsgLogo)})
        =>  /\ status = "error"
            /\ errorMessage = MsgUnexpected

\* the list the claim describes for a document of n pages: the banner
\* region of page 0, then for each page 1..n-1 its header-logo region and
\* its footer region
ClaimedRegions(n) ==
    [k \in 1..(1 + 2 * (n - 1)) |->
        IF k = 1 THEN FlattenRegion(0, PDF_POSITIONS.page1Banner)
        ELSE IF k % 2 = 0 THEN FlattenRegion(k \div 2, PDF_POSITIONS.headerLogo)
        ELSE FlattenRegion(k \div 2, footerRegion)]

\* the position of pdfDoc.save() among the calls of c, or past them all
SaveAt(c) ==
    IF HasOp(c, "save")
    THEN CHOOSE k \in 1..Len(c.ops) : c.ops[k].op = "save"
    ELSE Len(c.ops) + 1

\* C26: once the loop has run on a document of n >= 1 pages, the list
\* given to flattenRegions is the banner region of page 0 and then, for
\* each page 1..n-1, its header-logo region and its footer region: 1 +
\* 2(n-1) entries, none twice, none at the partner logo, and each with its
\* vector white fill drawn before pdfDoc.save()
C26_FlattenRegionsList ==
    \A i \in 1..MaxConversions :
        LET c == conv[i] IN
        LoopDone(c) =>
            /\ c.pages >= 1
            /\ c.regions = ClaimedRegions(c.pages)
            /\ Len(c.regions) = 1 + 2 * (c.pages - 1)
            /\ Cardinality(RegionSet(c)) = Len(c.regions)
            /\ \A r \in RegionSet(c) :
                 /\ ~(r.x = PDF_POSITIONS.partnerLogo.x /\ r.y = PDF_POSITIONS.partnerLogo.y)
                 /\ \E k \in Drawn(c) :
                      /\ k < SaveAt(c)
                      /\ c.ops[k] = drawWhiteRectangle(r.pageIndex,
                              [x |-> r.x, y |-> r.y, width |-> r.width,
                               height |-> r.height])[1]

\* a document of three pages has been saved and flattened with the five
\* regions of its list and a logo on its first page
C26_Witness ==
    /\ conv[1].pc = "resolved"
    /\ conv[1].pages = 3
    /\ Len(conv[1].regions) = 5
    /\ conv[1].regions[4] = FlattenRegion(2, PDF_POSITIONS.headerLogo)
    /\ conv[1].regions[5] = FlattenRegion(2, footerRegion)
    /\ \E k \in Drawn(conv[1]) : conv[1].ops[k].op = "drawImage"
    /\ HasOp(conv[1], "save")

---------------------------------------------------------------------------
(* processPDF twice: a call without a logo and, once it has settled, a     *)
(* second call on the same options; each goes its own way through its      *)
(* awaits and reads the clock when it builds its file name.                *)

\* the options of a call without a logo
OptionsNoLogo == {o \in Options : o.logoBuffer = 0}

InitTwice ==
    /\ up = [j \in 1..MaxUploads |-> NoUpload]
    /\ downloads = {}
    /\ errorMessage = ""
    /\ pdfFile = 0 /\ pdfBuffer = 0 /\ extractedDate = <<>>
    /\ partnerName = <<>> /\ logoFile = 0 /\ logoPreview = FALSE
    /\ status = "idle"
    /\ \E o \in OptionsNoLogo :
         /\ conv = [i \in 1..MaxConversions |->
                      IF i = 1 THEN Called("direct", o) ELSE NoCall]
         /\ fn = [name |-> "processPDF", input |-> o, called |-> FALSE, output |-> NoCall]

\* the first call goes past the await it is at
FirstRunAwait ==
    /\ fn.name = "processPDF"
    /\ \E d \in Await(conv[1]) : Pending(1, d)

\* processPDF(o) again, up to its first await
CallSecondRun ==
    /\ fn.name = "processPDF"
    /\ ~fn.called
    /\ Settled(conv[1])
    /\ fn' = [fn EXCEPT !.called = TRUE, !.output = Called("direct", fn.input)]
    /\ UNCHANGED <<uiVars, up, conv, downloads>>

\* the second call goes past the await it is at
SecondRunAwait ==
    /\ fn.name = "processPDF"
    /\ fn.called
    /\ \E d \in Await(fn.output) : fn' = [fn EXCEPT !.output = d]
    /\ UNCHANGED <<uiVars, up, conv, downloads>>

NextTwice == FirstRunAwait \/ CallSecondRun \/ SecondRunAwait

SpecTwice == InitTwice /\ [][NextTwice]_vars

\* the white fills drawn on page p, in order
MasksOfPage(c, p) ==
    SelectSeq(c.ops, LAMBDA o : o.op = "drawRectangle" /\ o.page = p)

\* the texts drawn on page p, in order
TextsOfPage(c, p) ==
    SelectSeq(c.ops, LAMBDA o : o.op = "drawText" /\ o.page = p)

\* the file name without its date and its extension
FilenameStem(c) ==
    SubSeq(c.result[1].filename, 1, Len(c.result[1].filename) - DateLen - 4)

BothResolved ==
    /\ fn.name = "processPDF" /\ fn.called
    /\ conv[1].pc = "resolved" /\ fn.output.pc = "resolved"

---------------------------------------------------------------------------
(* What processPDF draws on the pages, in each of its revisions: the one   *)
(* that flattens (unnamed/part_002), the one with the layered rectangles   *)
(* and the one with the white images (both in src/lib/pdf-processor.ts).   *)

Revisions == {"flattening", "secureRectangles", "whiteImages"}

\* const bannerArea = { x: 496, y: 0, width: 99, height: 842 }
bannerArea == [x |-> 49600, y |-> 0, width |-> 9900, height |-> 84200]
\* const headerLogoArea = { x: 527, y: 782, width: 68, height: 60 }
headerLogoArea == [x |-> 52700, y |-> 78200, width |-> 6800, height |-> 6000]
\* const footerArea = { x: 41, y: 45.25, width: 132, height: 12 }
footerArea == [x |-> 4100, y |-> 4525, width |-> 13200, height |-> 1200]

\* page.drawImage(image, { x, y, width, height }) of a white image
drawWhiteImage(pageIndex, image, r) ==
    <<[op |-> "drawImage", page |-> pageIndex, image |-> image,
       x |-> r.x, y |-> r.y, width |-> r.width, height |-> r.height]>>

SecureLayer_KeepsSize(r, i) ==
    [x |-> r.x - i * 50, y |-> r.y - i * 50, width |-> r.width, height |-> r.height]

\* the layer i of drawSecureWhiteRectangle: x - i * 0.5, y - i * 0.5,
\* width + i, height + i
SecureLayer(r, i) ==
    [x |-> r.x - i * 50, y |-> r.y - i * 50,
     width |-> r.width + i * 100, height |-> r.height + i * 100]

\* page.drawRectangle({ x, y, width, height, color: rgb(1, 1, 1), opacity: 1 })
SecureFill(pageIndex, r) ==
    [op |-> "drawRectangle", page |-> pageIndex,
     x |-> r.x, y |-> r.y, width |-> r.width, height |-> r.height,
     color |-> <<1, 1, 1>>, opacity |-> 1]

\* drawSecureWhiteRectangle(page, x, y, width, height): for (i = 0; i < 3;
\* i++) a layer, then the rectangle itself
drawSecureWhiteRectangle(pageIndex, r) ==
    [i \in 1..3 |-> SecureFill(pageIndex, SecureLayer(r, i - 1))]
    \o <<SecureFill(pageIndex, r)>>

\* the footer texts of a revision, the name at x 42 and at the y of the
\* revision, the date after it
FooterTexts(i, c, y) ==
    <<[op |-> "drawText", page |-> i, text |-> c.partnerName, font |-> "HelveticaBold",
       x |-> 4200, y |-> y, size |-> 8]>>
    \o (IF c.extractedDate # <<>>
        THEN <<[op |-> "drawText", page |-> i, text |-> <<",", " ">> \o c.extractedDate,
                font |-> "Helvetica", x |-> 4200 + widthOfTextAtSize(c.partnerName, 8),
                y |-> y, size |-> 8]>>
        ELSE <<>>)

\* the body of the loop over the pages 2+, layered rectangles: the header
\* mask, the footer rectangle { x: 42, y: 38, width: 130, height: 10 }, the
\* texts at y 40
PageOpsSecure(i, c) ==
    drawSecureWhiteRectangle(i, PDF_POSITIONS.headerLogo)
    \o drawWhiteRectangle(i, [x |-> 4200, y |-> 3800, width |-> 13000, height |-> 1000])
    \o FooterTexts(i, c, 4000)

\* the body of the loop over the pages 2+, white images: headerImage over
\* headerLogoArea, footerImage over footerArea, the texts at y 46.25
PageOpsImages(i, c) ==
    drawWhiteImage(i, "headerImage", headerLogoArea)
    \o drawWhiteImage(i, "footerImage", footerArea)
    \o FooterTexts(i, c, 4625)

RECURSIVE LoopOpsOf(_, _, _)
LoopOpsOf(revision, i, c) ==
    IF i >= c.pages THEN <<>>
    ELSE (CASE revision = "flattening" -> PageOps(i, c)
            [] revision = "secureRectangles" -> PageOpsSecure(i, c)
            [] revision = "whiteImages" -> PageOpsImages(i, c))
         \o LoopOpsOf(revision, i + 1, c)

\* page1.drawImage(image, { x: PDF_POSITIONS.partnerLogo.x, y: ...,
\* width: scaledDimensions.width, height: ... }), the size from scaleToFit
\* on PDF_POSITIONS.partnerLogo.maxWidth and maxHeight
LogoOps(c) ==
    IF c.logo
    THEN <<[op |-> "drawImage", page |-> 0, image |-> "logo",
            x |-> PDF_POSITIONS.partnerLogo.x, y |-> PDF_POSITIONS.partnerLogo.y,
            maxWidth |-> PDF_POSITIONS.partnerLogo.maxWidth,
            maxHeight |-> PDF_POSITIONS.partnerLogo.maxHeight]>>
    ELSE <<>>

\* what a call that gets as far as pdfDoc.save() has drawn
ProcessPDFDraws(revision, c) ==
    (CASE revision = "flattening" -> drawWhiteRectangle(0, PDF_POSITIONS.page1Banner)
       [] revision = "secureRectangles" ->
            drawSecureWhiteRectangle(0, PDF_POSITIONS.page1Banner)
       [] revision = "whiteImages" -> drawWhiteImage(0, "bannerImage", bannerArea))
    \o LogoOps(c)
    \o LoopOpsOf(revision, 1, c)

DrawInputs ==
    [revision : Revisions, pages : 1..MaxPages, partnerName : {Trim(NameMB), <<"B">>},
     extractedDate : {<<>>, TextDate, TextOtherDate}, logo : BOOLEAN]

InitDraws ==
    /\ InitForm
    /\ \E c \in DrawInputs :
         fn = [name |-> "draws", input |-> c, called |-> FALSE, output |-> <<>>]

CallProcessPDFDraws ==
    /\ fn.name = "draws"
    /\ ~fn.called
    /\ fn' = [fn EXCEPT !.called = TRUE,
                        !.output = ProcessPDFDraws(fn.input.revision, fn.input)]
    /\ UNCHANGED <<uiVars, up, conv, downloads>>

NextDraws == CallProcessPDFDraws

SpecDraws == InitDraws /\ [][NextDraws]_vars

\* the call covers a part of the page with white
IsMask(o) ==
    \/ o.op = "drawRectangle"
    \/ o.op = "drawImage" /\ o.image \in {"bannerImage", "headerImage", "footerImage"}

RectOf(o) == [x |-> o.x, y |-> o.y, width |-> o.width, height |-> o.height]

\* the white covers of page p that reach into the upper half of the page
\* (the banner on page 1, the header logo on the pages 2+; not the footer)
UpperMasks(ops, p) ==
    {RectOf(ops[k]) : k \in {j \in 1..Len(ops) :
        IsMask(ops[j]) /\ ops[j].page = p /\ ops[j].y + ops[j].height > 42100}}

\* a region of the configuration, as it is or with the layers of
\* drawSecureWhiteRectangle around it
Configured(r) == {SecureLayer(r, i) : i \in 0..2}

\* C19: in every revision the banner mask of page 1 is the rectangle
\* PDF_POSITIONS.page1Banner, the header mask of every page 2+ is the
\* rectangle PDF_POSITIONS.headerLogo (each possibly with its layers), and the
\* partner logo is drawn at PDF_POSITIONS.partnerLogo.x and .y within
\* maxWidth and maxHeight
C19_RegionsFromConfiguration ==
    fn.called /\ fn.name = "draws" =>
        LET ops == fn.output IN
        /\ PDF_POSITIONS.page1Banner \in UpperMasks(ops, 0)
        /\ UpperMasks(ops, 0) \subseteq Configured(PDF_POSITIONS.page1Banner)
        /\ \A p \in 1..(fn.input.pages - 1) :
             /\ PDF_POSITIONS.headerLogo \in UpperMasks(ops, p)
             /\ UpperMasks(ops, p) \subseteq Configured(PDF_POSITIONS.headerLogo)
        /\ \A k \in 1..Len(ops) :
             ops[k].op = "drawImage" /\ ops[k].image = "logo" =>
                 /\ ops[k].x = PDF_POSITIONS.partnerLogo.x
                 /\ ops[k].y = PDF_POSITIONS.partnerLogo.y
                 /\ ops[k].maxWidth = PDF_POSITIONS.partnerLogo.maxWidth
                 /\ ops[k].maxHeight = PDF_POSITIONS.partnerLogo.maxHeight

---------------------------------------------------------------------------
(* drawSecureWhiteRectangle by itself, on rectangles of positive size: the *)
(* masks of the configuration, the footer rectangle, and small ones at the *)
(* corner of the page.                                                     *)

SecureRects ==
    [x : {0, 25, 4200, 53300}, y : {0, 3800, 78200},
     width : {50, 6200, 13000}, height : {25, 1000, 84200}]

InitSecure ==
    /\ InitForm
    /\ \E r \in SecureRects, p \in 0..(MaxPages - 1) :
         fn = [name |-> "drawSecureWhiteRectangle", input |-> [page |-> p, rect |-> r],
               called |-> FALSE, output |-> <<>>]

CallDrawSecureWhiteRectangle ==
    /\ fn.name = "drawSecureWhiteRectangle"
    /\ ~fn.called
    /\ fn' = [fn EXCEPT !.called = TRUE,
                        !.output = drawSecureWhiteRectangle(fn.input.page, fn.input.rect)]
    /\ UNCHANGED <<uiVars, up, conv, downloads>>

NextSecure == CallDrawSecureWhiteRectangle

SpecSecure == InitSecure /\ [][NextSecure]_vars

\* every point of the rectangle b is in the rectangle a
Contains(a, b) ==
    /\ a.x <= b.x /\ b.x + b.width <= a.x + a.width
    /\ a.y <= b.y /\ b.y + b.height <= a.y + a.height

SecureCalled == fn.called /\ fn.name = "drawSecureWhiteRectangle"

\* C21: drawSecureWhiteRectangle draws on its page, in order, opaque white
\* fills of which each but the last contains the one before it and the
\* whole target rectangle, and then a last fill that is exactly the target
\* rectangle
C21_SecureLayers ==
    SecureCalled =>
        LET ops == fn.output
            r == fn.input.rect
            n == Len(ops)
        IN  /\ n >= 2
            /\ \A k \in 1..n :
                 /\ ops[k].op = "drawRectangle" /\ ops[k].page = fn.input.page
                 /\ ops[k].color = <<1, 1, 1>> /\ ops[k].opacity = 1
                 /\ Contains(RectOf(ops[k]), r)
            /\ \A k \in 2..(n - 1) : Contains(RectOf(ops[k]), RectOf(ops[k - 1]))
            /\ RectOf(ops[n]) = r

\* the layers of a mask of the footer rectangle on page 2: three fills that
\* grow, the outermost half a point beyond the rectangle on every side, and
\* the rectangle itself on top
C21_Witness ==
    /\ SecureCalled
    /\ fn.input.page = 1
    /\ fn.input.rect = [x |-> 4200, y |-> 3800, width |-> 13000, height |-> 1000]
    /\ Len(fn.output) = 4
    /\ RectOf(fn.output[3]) = [x |-> 4100, y |-> 3700, width |-> 13200, height |-> 1200]
    /\ RectOf(fn.output[3]) # RectOf(fn.output[2])
    /\ RectOf(fn.output[4]) = fn.input.rect

---------------------------------------------------------------------------
(* The logo of the form, and what handleProcess passes of it.              *)

\* the frames processPDF can be in once both fonts are embedded
AfterFonts(c) ==
    UNION { UNION { EmbedFontRegular(e) : e \in {x \in EmbedFontBold(d) : x.pc = "fontRegular"} }
            : d \in {x \in PdfLoad(c) : x.pc = "fontBold"} }

\* C20: the logo of the form has one of the types image/png, image/jpeg,
\* image/jpg, and so has the logo of every conversion in flight; such a
\* conversion calls processPDF with the bytes of the logo and that type,
\* and processPDF on these options, once the fonts are embedded, awaits
\* embedPng or embedJpg: it neither goes on without the logo nor throws
\* the error of the unsupported format
C20_LogoTypeSupported ==
    /\ logoFile # 0 => LogoFiles[logoFile].type \in SupportedMimeTypes
    /\ \A i \in 1..MaxConversions :
         LET c == conv[i] IN
         InFlight(i) /\ c.caller = "handleProcess" /\ c.logoFile # 0 =>
             /\ LogoFiles[c.logoFile].type \in SupportedMimeTypes
             /\ c.pc = "load" =>
                  /\ c.logoBuffer = c.logoFile
                  /\ c.logoMimeType = LogoFiles[c.logoFile].type
                  /\ \A g \in AfterFonts(c) :
                       /\ g.pc \in {"embedLogo", "rejected"}
                       /\ g.pc = "rejected" => g.thrown = <<LibError("embedFont")>>

\* a conversion started from the form with a logo has called processPDF
C20_Witness ==
    /\ InFlight(1)
    /\ conv[1].caller = "handleProcess"
    /\ conv[1].pc = "load"
    /\ conv[1].logoBuffer # 0
    /\ conv[1].logoMimeType = "image/png"
    /\ \E g \in AfterFonts(conv[1]) : g.pc = "embedLogo"

---------------------------------------------------------------------------
(* The file name of processPDF by itself: the statements after await       *)
(* flattenRegions, on any partner name and at any time of the clock.       *)

\* the characters of the partner names: letters, a digit, a letter of the
\* character class outside ASCII, one outside it (e acute), whitespace, the
\* hyphen, and punctuation
NameChars == {"M", "b", "7", "auml", "eacute", " ", "\t", "-", "_", "&"}

PartnerNames == UNION {[1..n -> NameChars] : n \in 0..MaxNameLen}

InitFilename ==
    /\ InitForm
    /\ \E name \in PartnerNames, now \in Clock :
         fn = [name |-> "filename", input |-> [partnerName |-> name, now |-> now],
               called |-> FALSE, output |-> <<>>]

CallFilename ==
    /\ fn.name = "filename"
    /\ ~fn.called
    /\ fn' = [fn EXCEPT !.called = TRUE,
                        !.output = Filename(fn.input.partnerName, fn.input.now)]
    /\ UNCHANGED <<uiVars, up, conv, downloads>>

NextFilename == CallFilename

SpecFilename == InitFilename /\ [][NextFilename]_vars

\* the extended-Latin letters among the characters of the names
ExtendedLatinLetters == GermanLetters \cup {"eacute"}

\* the characters the claim keeps
ClaimedChars ==
    AsciiLetters \cup Digits \cup ExtendedLatinLetters \cup Whitespace \cup {"-"}

\* YYYY-MM-DD
IsoDate(now) ==
    PadStart(now.year, 4) \o <<"-">> \o PadStart(now.month, 2) \o <<"-">>
    \o PadStart(now.day, 2)

\* C11: the file name is 'Beweissicherungsbericht_' + S + '_' + YYYY-MM-DD
\* + '.pdf', S being the name without the characters outside the letters,
\* the digits, the extended-Latin letters, whitespace and '-', with each
\* whitespace run as one underscore; S has no whitespace and no character
\* outside that class and the underscore
C11_FilenameOfSanitizedName ==
    fn.called /\ fn.name = "filename" =>
        LET S == CollapseWhitespace(
                     SelectSeq(fn.input.partnerName, LAMBDA ch : ch \in ClaimedChars))
        IN  /\ fn.output = FilenamePrefix \o S \o <<"_">> \o IsoDate(fn.input.now)
                           \o <<".", "p", "d", "f">>
            /\ \A k \in 1..Len(S) :
                 S[k] \notin Whitespace /\ S[k] \in ClaimedChars \cup {"_"}

---------------------------------------------------------------------------
(* extractDateFromPdf by itself: a call on any document, or on any bytes.  *)

InitExtract ==
    /\ InitForm
    /\ \/ \E doc \in ExtractInputs :
            fn = [name |-> "extractDateFromPdf", input |-> doc,
                  called |-> FALSE, output |-> <<>>]
       \/ \E bytes \in RawInputs :
            fn = [name |-> "extractDateFromPdfRaw", input |-> bytes,
                  called |-> FALSE, output |-> <<>>]

CallExtractDateFromPdf ==
    /\ fn.name = "extractDateFromPdf"
    /\ ~fn.called
    /\ fn' = [fn EXCEPT !.called = TRUE, !.output = extractDateFromPdf(fn.input)]
    /\ UNCHANGED <<uiVars, up, conv, downloads>>

CallExtractDateFromPdfRaw ==
    /\ fn.name = "extractDateFromPdfRaw"
    /\ ~fn.called
    /\ fn' = [fn EXCEPT !.called = TRUE, !.output = extractDateFromPdfRaw(fn.input)]
    /\ UNCHANGED <<uiVars, up, conv, downloads>>

NextExtract == CallExtractDateFromPdf \/ CallExtractDateFromPdfRaw

SpecExtract == InitExtract /\ [][NextExtract]_vars

\* a string of the exact form DD.MM.YYYY
IsDate(v) == Len(v) = DateLen /\ DateAt(v, 1)

HasDate(s) == \E i \in 1..Len(s) : DateAt(s, i)

C6_FirstMatchOfConcatenation ==
    (   /\ fn.called
        /\ fn.name = "extractDateFromPdf"
        /\ fn.input.loads /\ fn.input.numPages >= 2 /\ fn.input.textOk)
    => fn.output.value = DateMatch(Concat(fn.input.runs))

=============================================================================
